---- MODULE Spec2Model ----
(***************************************************************************)
(* Model of the restaurant write path of the production server             *)
(* (src/README.md, lines 116 onward): POST / PUT / DELETE                  *)
(* /api/restaurants over one shared sqlite3 connection.                    *)
(*                                                                         *)
(* A statement handed to db.run is either queued behind the statements in  *)
(* flight (serialized mode, inside db.serialize) or put in flight at once  *)
(* (parallel mode, from a callback).  Statements in flight execute in any  *)
(* order.  Executing a statement and running its callback is one step.     *)
(***************************************************************************)
EXTENDS Naturals, Integers, Sequences, FiniteSets, Bags, TLC

(* ---------------- bounds ---------------- *)
MaxId == 2          \* restaurant ids are 1..MaxId
MaxReqs == 2        \* requests handled in one behaviour
MaxFaults == 1      \* injected storage failures (fault specification only)
MaxNames == 3       \* names carried by the four lists of one body
MaxCats == 2        \* categories with a non-empty list in one body
MaxConc == 2        \* request slots

(* ---------------- values ---------------- *)
Ids == 1..MaxId
Cat == {"cuisines", "types", "neighborhoods", "tags"}
CatOrder == <<"cuisines", "types", "neighborhoods", "tags">>

\* strings are sequences of characters
sA == <<"a">>
sSpA == <<" ", "a">>
sB == <<"b">>
sSp == <<" ">>
sEmpty == <<>>
sAB == <<"a", "b">>
sUpB == <<"B">>
sColon == <<"a", ":", "b">>
sComma == <<"a", ",", "b">>
sRed == <<"r">>
sOne == <<"1">>
sVisited == <<"V">>

\* SQL NULL and a body field that is not there (JavaScript undefined)
Null == <<"NULL">>
Absent == <<"undefined">>

\* the text columns a body may set besides name; the other text and number
\* columns of restaurants are handled exactly like notes
StrCols == {"notes", "what_to_order", "borough", "status", "neighborhood"}
sUnvisited == <<"U">>
NoScalars == [f \in StrCols |-> Absent]

\* request names: a plain name, a padded name, whitespace only, empty
NamePool == {sSpA, sSp, sEmpty}
\* association lists a request may carry for a category
ListPool == {<<sA>>, <<sA, sSpA>>, <<sSp, sB>>}
NoLists == [c \in Cat |-> <<>>]

(* ---------------- String.prototype.trim ---------------- *)
RECURSIVE TrimLeft(_)
TrimLeft(s) == IF s # <<>> /\ Head(s) = " " THEN TrimLeft(Tail(s)) ELSE s

RECURSIVE TrimRight(_)
TrimRight(s) ==
    IF s # <<>> /\ s[Len(s)] = " " THEN TrimRight(SubSeq(s, 1, Len(s) - 1)) ELSE s

Trim(s) == TrimRight(TrimLeft(s))

(* ---------------- request bodies ---------------- *)
RECURSIVE SumLen(_, _)
SumLen(lists, cs) ==
    IF cs = {} THEN 0
    ELSE LET c == CHOOSE x \in cs : TRUE
         IN  Len(lists[c]) + SumLen(lists, cs \ {c})

\* the four lists of a body; an absent list reads as [] (destructuring default)
BodyLists ==
    {l \in [Cat -> ListPool \cup {<<>>}] :
        /\ SumLen(l, Cat) <= MaxNames
        /\ Cardinality({c \in Cat : l[c] # <<>>}) <= MaxCats}

(* ---------------- database ---------------- *)
\* rest : id -> row of restaurants;  look[c] : names of lookup table c
\* (a lookup row is identified by its unique name);  link[c] : bag of
\* <<restaurant_id, lookup name>> rows of join table c
\* color : tag name -> color of the tag row
\* stamp : id -> the updated_at column of the row of restaurants (the time,
\* counted in requests received, of the statement that set it)
EmptyDB ==
    [rest |-> <<>>,
     look |-> [c \in Cat |-> {}],
     link |-> [c \in Cat |-> EmptyBag],
     color |-> <<>>,
     pad |-> {},
     stamp |-> <<>>]

\* no scratchpad POST has been answered with success
NoPost == <<"none">>

\* '#6B7280'
DefaultColor == <<"#", "6", "B", "7", "2", "8", "0">>

\* the color of a tag row inserted by name only: none
TagColumnDefault == Null

RestIds(d) == DOMAIN d.rest

\* rowid of the next inserted restaurant: largest rowid in the table plus one
NextId(d) ==
    IF RestIds(d) = {} THEN 1
    ELSE (CHOOSE i \in RestIds(d) : \A j \in RestIds(d) : j <= i) + 1

\* a parameter bound from a body field: undefined binds NULL
Bind(v) == IF v = Absent THEN Null ELSE v

\* "liked ? 1 : 0"
Flag(b) == IF b THEN 1 ELSE 0

\* the row that the INSERT of app.post binds from body q
PostRow(q) ==
    [name |-> Trim(q.name),
     notes |-> Bind(q.sc["notes"]),
     what_to_order |-> Bind(q.sc["what_to_order"]),
     borough |-> Bind(q.sc["borough"]),
     status |-> IF q.sc["status"] = Absent THEN sUnvisited ELSE q.sc["status"],
     liked |-> Flag(q.likedGiven /\ q.liked),
     neighborhood |-> Bind(q.sc["neighborhood"])]

\* updated_at of a row inserted without naming the column
UpdatedAtDefault(now) == now

InsertRestaurant(d, id, row, now) ==
    [d EXCEPT !.rest = [i \in RestIds(d) \cup {id} |->
                          IF i = id THEN row ELSE d.rest[i]],
              !.stamp = [i \in RestIds(d) \cup {id} |->
                          IF i = id THEN UpdatedAtDefault(now) ELSE d.stamp[i]]]

\* mutant: the UPDATE rebinds every column, as the INSERT does
SetColumns_AllColumns(row, q) == PostRow(q)

\* "UPDATE restaurants SET <updates> WHERE id = ?" applied to one row: only
\* the columns whose body field is not undefined are in <updates>
SetColumns(row, q) ==
    [name |-> IF q.nameGiven THEN Trim(q.name) ELSE row.name,
     notes |-> IF q.sc["notes"] # Absent THEN q.sc["notes"] ELSE row.notes,
     what_to_order |-> IF q.sc["what_to_order"] # Absent
                       THEN q.sc["what_to_order"] ELSE row.what_to_order,
     borough |-> IF q.sc["borough"] # Absent THEN q.sc["borough"] ELSE row.borough,
     status |-> IF q.sc["status"] # Absent THEN q.sc["status"] ELSE row.status,
     liked |-> IF q.likedGiven THEN Flag(q.liked) ELSE row.liked,
     neighborhood |-> IF q.sc["neighborhood"] # Absent
                      THEN q.sc["neighborhood"] ELSE row.neighborhood]

\* "UPDATE restaurants SET <updates>, updated_at = CURRENT_TIMESTAMP
\*  WHERE id = ?"
UpdateRestaurant(d, id, q, now) ==
    [d EXCEPT !.rest[id] = SetColumns(@, q), !.stamp[id] = now]

DeleteRestaurant(d, id) ==
    [d EXCEPT !.rest = [i \in RestIds(d) \ {id} |-> d.rest[i]],
              !.stamp = [i \in RestIds(d) \ {id} |-> d.stamp[i]]]

\* DELETE FROM restaurant_<c> WHERE restaurant_id = id
DeleteLinks(d, c, id) ==
    [d EXCEPT !.link[c] =
        [p \in {q \in DOMAIN d.link[c] : q[1] # id} |-> d.link[c][p]]]

\* INSERT OR IGNORE INTO <c> (name) VALUES (n)
InsertLookup(d, c, n) ==
    [d EXCEPT !.look[c] = @ \cup {n},
              !.color = IF c = "tags" /\ n \notin DOMAIN @
                        THEN [t \in DOMAIN @ \cup {n} |->
                                IF t = n THEN TagColumnDefault ELSE @[t]]
                        ELSE @]

\* INSERT INTO restaurant_<c> SELECT id, <lookup id> FROM <c> WHERE name = n
InsertLink(d, c, id, n) ==
    IF n \in d.look[c]
    THEN [d EXCEPT !.link[c] = @ (+) SetToBag({<<id, n>>})]
    ELSE d

\* the scratchpad rows that an insert of a row with this id conflicts with
PadConflict(d, id) == {x \in d.pad : x.id = id}

\* INSERT OR REPLACE INTO scratchpad (id, content, updated_at)
\* VALUES (1, c, CURRENT_TIMESTAMP)
ReplaceScratchpad(d, c) ==
    [d EXCEPT !.pad = (@ \ PadConflict(d, 1)) \cup {[id |-> 1, content |-> c]}]

\* SELECT content FROM scratchpad WHERE id = 1, read with db.get
ScratchpadRows(d) == {x \in d.pad : x.id = 1}

\* the names linked to restaurant id in category c
Linked(d, c, id) == {p[2] : p \in {q \in DOMAIN d.link[c] : q[1] = id}}

(* ---------------- SQL text functions ---------------- *)
\* LIKE compares ASCII letters without regard to case
Lower(ch) == IF ch = "A" THEN "a" ELSE IF ch = "B" THEN "b" ELSE ch

LowerS(s) == [i \in 1..Len(s) |-> Lower(s[i])]

\* needle occurs in hay
Contains(hay, needle) ==
    \E i \in 1..(Len(hay) + 1) :
        /\ i + Len(needle) - 1 <= Len(hay)
        /\ SubSeq(hay, i, i + Len(needle) - 1) = needle

\* value LIKE '%' || term || '%'; NULL LIKE anything is not true
Like(value, term) ==
    value # Null /\ Contains(LowerS(value), LowerS(term))

\* the byte of a character, for the BINARY collation of ORDER BY
Code(ch) ==
    CASE ch = " " -> 32 [] ch = "#" -> 35 [] ch = "," -> 44
      [] ch = ":" -> 58 [] ch = "A" -> 65 [] ch = "B" -> 66
      [] ch = "U" -> 85 [] ch = "a" -> 97 [] ch = "b" -> 98
      [] OTHER -> 48

RECURSIVE Less(_, _)
\* s sorts before t
Less(s, t) ==
    IF t = <<>> THEN FALSE
    ELSE IF s = <<>> THEN TRUE
    ELSE IF Code(Head(s)) # Code(Head(t)) THEN Code(Head(s)) < Code(Head(t))
    ELSE Less(Tail(s), Tail(t))

RECURSIVE JoinAll(_, _)
\* the strings of set S joined by sep, in some order
JoinAll(S, sep) ==
    LET x == CHOOSE y \in S : TRUE
    IN  IF S \ {x} = {} THEN x ELSE x \o sep \o JoinAll(S \ {x}, sep)

\* GROUP_CONCAT(DISTINCT ...) over the non-NULL values S of a group
GroupConcat(S) == IF S \ {Null} = {} THEN Null ELSE JoinAll(S \ {Null}, <<",">>)

\* a || b : NULL if either side is NULL
Concat(a, b) == IF a = Null \/ b = Null THEN Null ELSE a \o b

(* ---------------- JavaScript text functions ---------------- *)
RECURSIVE Split(_, _)
\* String.prototype.split(sep) for a one-character separator
Split(s, sep) ==
    IF \A i \in 1..Len(s) : s[i] # sep THEN <<s>>
    ELSE LET k == CHOOSE i \in 1..Len(s) :
                    s[i] = sep /\ \A j \in 1..(i - 1) : s[j] # sep
         IN  <<SubSeq(s, 1, k - 1)>> \o Split(SubSeq(s, k + 1, Len(s)), sep)

\* a value in a condition: undefined, null and '' are falsy
Truthy(v) == v # Absent /\ v # Null /\ v # <<>>

RECURSIVE NonEmpty(_)
\* .filter(c => c)
NonEmpty(list) ==
    IF list = <<>> THEN <<>>
    ELSE IF Head(list) = <<>> THEN NonEmpty(Tail(list))
    ELSE <<Head(list)>> \o NonEmpty(Tail(list))

\* x.split(',').map(c => c.trim()).filter(c => c)
ParseList(x) ==
    LET parts == Split(x, ",") IN NonEmpty([i \in 1..Len(parts) |-> Trim(parts[i])])

Digit(ch) ==
    CASE ch = "0" -> 0 [] ch = "1" -> 1 [] ch = "2" -> 2 [] ch = "3" -> 3
      [] OTHER -> 9

RECURSIVE ParseInt(_)
\* parseInt of a string of digits
ParseInt(s) ==
    IF Len(s) = 1 THEN Digit(s[1])
    ELSE ParseInt(SubSeq(s, 1, Len(s) - 1)) * 10 + Digit(s[Len(s)])

(* ---------------- the SELECT of the two restaurant reads ------------- *)
\* the rows of join table c that LEFT JOIN pairs with restaurant id: one per
\* link row, or a single all-NULL row when there is none
JoinSide(d, c, id) ==
    IF Linked(d, c, id) = {} THEN {[name |-> Null, k |-> 0]}
    ELSE {[name |-> pr[1][2], k |-> pr[2]] :
            pr \in {x \in (DOMAIN d.link[c]) \X (1..(MaxNames + 1)) :
                        x[1][1] = id /\ x[2] <= d.link[c][x[1]]}}

\* FROM restaurants r LEFT JOIN restaurant_cuisines ... LEFT JOIN tags tg
JoinRows(d) ==
    UNION {{[id |-> id, cuisines |-> cu, types |-> ty,
             neighborhoods |-> ne, tags |-> tg] :
                cu \in JoinSide(d, "cuisines", id),
                ty \in JoinSide(d, "types", id),
                ne \in JoinSide(d, "neighborhoods", id),
                tg \in JoinSide(d, "tags", id)} : id \in RestIds(d)}

\* mutant: every joined row is a group of its own
GroupBy_PerRow(rows) == {[id |-> j.id, rows |-> {j}] : j \in rows}

\* GROUP BY r.id
GroupBy(rows) ==
    {[id |-> i, rows |-> {j \in rows : j.id = i}] : i \in {j.id : j \in rows}}

\* GROUP_CONCAT(DISTINCT <c>.name) of group g
AggNames(g, c) == GroupConcat({j[c].name : j \in g.rows})

\* GROUP_CONCAT(DISTINCT tg.name || ':' || tg.color) of group g
AggTags(d, g) ==
    GroupConcat({Concat(Concat(j.tags.name, <<":">>),
                        IF j.tags.name = Null THEN Null
                        ELSE d.color[j.tags.name]) : j \in g.rows})

RECURSIVE OrderByName(_, _)
\* ORDER BY r.name
OrderByName(d, G) ==
    IF G = {} THEN <<>>
    ELSE LET g == CHOOSE x \in G :
                    \A y \in G : ~Less(d.rest[y.id].name, d.rest[x.id].name)
         IN  <<g>> \o OrderByName(d, G \ {g})

\* LIMIT lim OFFSET off
LimitOffset(rows, lim, off) ==
    SubSeq(rows, off + 1, IF off + lim < Len(rows) THEN off + lim ELSE Len(rows))

\* tag => { const [name, color] = tag.split(':');
\*          return { name, color: color || '#6B7280' } }
ShapeTag(tag) ==
    LET parts == Split(tag, ":")
    IN  [name |-> parts[1],
         color |-> IF Len(parts) >= 2 /\ parts[2] # <<>> THEN parts[2]
                   ELSE DefaultColor]

\* row.<c> ? row.<c>.split(',') : []
ShapeNames(agg) == IF Truthy(agg) THEN Split(agg, ",") ELSE <<>>

ShapeTags(agg) ==
    IF Truthy(agg)
    THEN LET parts == Split(agg, ",")
         IN  [i \in 1..Len(parts) |-> ShapeTag(parts[i])]
    ELSE <<>>

\* the object res.json sends for the result row of group g
Shape(d, g) ==
    LET row == d.rest[g.id]
    IN  [id |-> g.id, name |-> row.name, notes |-> row.notes,
         what_to_order |-> row.what_to_order, borough |-> row.borough,
         status |-> row.status, liked |-> (row.liked # 0),
         cuisines |-> ShapeNames(AggNames(g, "cuisines")),
         types |-> ShapeNames(AggNames(g, "types")),
         neighborhoods |-> ShapeNames(AggNames(g, "neighborhoods")),
         tags |-> ShapeTags(AggTags(d, g))]

(* ---------------- the query of GET /api/restaurants ---------------- *)
\* req.query: every parameter is a string or is not there
NoParams ==
    [search |-> Absent, cuisines |-> Absent, types |-> Absent,
     tags |-> Absent, neighborhoods |-> Absent, boroughs |-> Absent,
     status |-> Absent, liked |-> Absent, limit |-> Absent, offset |-> Absent]

sTrue == <<"t", "r", "u", "e">>

\* limit = 10000, offset = 0
DefaultLimit == 10000
DefaultOffset == 0

\* mutant: with a search term the equality tests join the alternatives of
\* the search instead of restricting the base rows
Where_SearchBypasses(row, p) ==
    \/ Truthy(p.search)
    \/ /\ Truthy(p.boroughs) => row.borough = p.boroughs
       /\ Truthy(p.status) => row.status = p.status
       /\ p.liked # Absent => row.liked = (IF p.liked = sTrue THEN 1 ELSE 0)

\* the WHERE clause: " AND r.borough = ?", " AND r.status = ?",
\* " AND r.liked = ?"
Where(row, p) ==
    /\ Truthy(p.boroughs) => row.borough = p.boroughs
    /\ Truthy(p.status) => row.status = p.status
    /\ p.liked # Absent => row.liked = (IF p.liked = sTrue THEN 1 ELSE 0)

\* one piece appended to the query after GROUP BY r.id: the keyword it
\* starts with, the aggregate it tests and the LIKE operands
Piece(op, cat, vals) == [op |-> op, cat |-> cat, vals |-> vals]

\* the text appended for category c, opening with HAVING when first is true
CategoryPieces(p, c, first) ==
    IF Truthy(p[c]) /\ ParseList(p[c]) # <<>>
    THEN <<Piece(IF first THEN "HAVING" ELSE "AND", c, ParseList(p[c]))>>
    ELSE <<>>

\* the text appended for the search term behind the pieces so far
SearchPieces(p, sofar) ==
    IF Truthy(p.search)
    THEN <<Piece(IF \E i \in 1..Len(sofar) : sofar[i].op = "HAVING"
                 THEN "OR" ELSE "HAVING", "search", <<p.search>>)>>
    ELSE <<>>

\* everything between GROUP BY r.id and ORDER BY, in the order it is built
HavingPieces(p) ==
    LET cu == CategoryPieces(p, "cuisines", TRUE)
        ne == CategoryPieces(p, "neighborhoods", ~Truthy(p.cuisines))
        ty == CategoryPieces(p, "types",
                             ~Truthy(p.cuisines) /\ ~Truthy(p.neighborhoods))
        tg == CategoryPieces(p, "tags",
                             ~(Truthy(p.cuisines) \/ Truthy(p.types)
                               \/ Truthy(p.neighborhoods)))
        cats == cu \o ne \o ty \o tg
    IN  cats \o SearchPieces(p, cats)

\* the statement prepares: the text after GROUP BY r.id is empty or opens
\* with the one HAVING (an AND there would put an aggregate into GROUP BY)
Prepares(pieces) ==
    pieces = <<>>
    \/ (pieces[1].op = "HAVING"
        /\ \A i \in 2..Len(pieces) : pieces[i].op # "HAVING")

\* one parenthesised piece holds of group g
PieceHolds(d, g, pc) ==
    IF pc.cat = "search"
    THEN LET row == d.rest[g.id]
             t == pc.vals[1]
         IN  \/ Like(row.name, t)
             \/ Like(row.notes, t)
             \/ Like(row.what_to_order, t)
             \/ Like(row.borough, t)
             \/ \E c \in Cat : Like(AggNames(g, c), t)
    ELSE \E i \in 1..Len(pc.vals) : Like(AggNames(g, pc.cat), pc.vals[i])

\* the HAVING expression holds of group g: AND binds tighter than OR
HavingHolds(d, g, pieces) ==
    pieces = <<>>
    \/ \E i \in 1..Len(pieces) :
         /\ i = 1 \/ pieces[i].op = "OR"
         /\ \A k \in i..Len(pieces) :
               (\A l \in (i + 1)..k : pieces[l].op = "AND")
                   => PieceHolds(d, g, pieces[k])

\* db.all(query, params): the shaped rows, or an error
ListRows(d, p) ==
    LET pieces == HavingPieces(p)
        lim == IF p.limit = Absent THEN DefaultLimit ELSE ParseInt(p.limit)
        off == IF p.offset = Absent THEN DefaultOffset ELSE ParseInt(p.offset)
        G == {g \in GroupBy({j \in JoinRows(d) : Where(d.rest[j.id], p)}) :
                HavingHolds(d, g, pieces)}
        rows == LimitOffset(OrderByName(d, G), lim, off)
    IN  IF Prepares(pieces)
        THEN [err |-> FALSE, rows |-> [i \in 1..Len(rows) |-> Shape(d, rows[i])]]
        ELSE [err |-> TRUE, rows |-> <<>>]

\* WHERE r.id = ? GROUP BY r.id, read with db.get: the rows found
OneRow(d, id) ==
    LET G == GroupBy({j \in JoinRows(d) : j.id = id})
        rows == OrderByName(d, G)
    IN  [i \in 1..Len(rows) |-> Shape(d, rows[i])]

(* ---------------- state ---------------- *)
VARIABLES
    db,          \* contents of the database file as the connection sees it
    tx,          \* TRUE while the connection has an open transaction
    snap,        \* contents at the BEGIN of the open transaction
    queue,       \* statements waiting in the connection's queue
    inflight,    \* statements handed to the engine, not yet executed
    locked,      \* the statement in flight was taken from the queue as exclusive
    reqs,        \* the requests being handled, by slot
    nreq,        \* requests started so far
    pairsUnique, \* the join tables declare (restaurant, lookup) unique
    faults,      \* storage failures that may still be injected
    overlap,     \* a request may arrive while another is being handled
    lastPost     \* content of the latest scratchpad POST answered with
                 \* success (history only)

vars == <<db, tx, snap, queue, inflight, locked, reqs, nreq, pairsUnique,
          faults, overlap, lastPost>>

Slots == 1..MaxConc

NoReq ==
    [kind |-> "none", id |-> 0, nameGiven |-> FALSE, name |-> <<>>,
     lists |-> NoLists, sc |-> NoScalars, likedGiven |-> FALSE,
     liked |-> FALSE, qp |-> NoParams, out |-> <<>>,
     pre |-> EmptyDB, preTx |-> FALSE, resp |-> <<>>,
     left |-> 0, rejected |-> FALSE, failed |-> FALSE,
     fault |-> FALSE, rb |-> FALSE, rbFirst |-> FALSE,
     content |-> Absent, stats |-> <<>>, work |-> <<>>, errors |-> FALSE]

Stmt(k, r, c, i) == [k |-> k, req |-> r, cat |-> c, idx |-> i, ex |-> FALSE]

CatIndex(c) == CHOOSE i \in 1..4 : CatOrder[i] = c

(* ---------------- the connection's scheduler ---------------- *)
\* the request remembers that it has issued a ROLLBACK (history only)
NoteRollback(m, st) ==
    IF st.k = "ROLLBACK" THEN [m EXCEPT !.reqs[st.req].rb = TRUE] ELSE m

\* Database::Schedule: a statement waits in the queue when statements are
\* in flight and the connection is locked or in serialized mode; otherwise
\* it is handed to the engine at once
Schedule(m, st, serialize) ==
    LET m0 == NoteRollback(m, st)
    IN  IF (m.locked \/ serialize) /\ m.inflight # {}
        THEN [m0 EXCEPT !.queue = Append(@, [st EXCEPT !.ex = serialize])]
        ELSE [m0 EXCEPT !.locked = FALSE, !.inflight = @ \cup {st}]

\* Database::Process: hand queued statements to the engine; an exclusive
\* one only when nothing is in flight
RECURSIVE Process(_)
Process(m) ==
    IF m.queue # <<>> /\ (~m.locked \/ m.inflight = {})
       /\ ~(Head(m.queue).ex /\ m.inflight # {})
    THEN Process([m EXCEPT !.queue = Tail(@),
                           !.locked = Head(m.queue).ex,
                           !.inflight = @ \cup {Head(m.queue)}])
    ELSE m

\* db.run from a callback (parallel mode) and inside db.serialize
Run(m, st) == Schedule(m, st, FALSE)
RunSerialized(m, st) == Schedule(m, st, TRUE)

RECURSIVE RunAll(_, _)
RunAll(m, sts) ==
    IF sts = <<>> THEN m ELSE RunAll(Run(m, Head(sts)), Tail(sts))

RECURSIVE RunAllSerialized(_, _)
RunAllSerialized(m, sts) ==
    IF sts = <<>> THEN m
    ELSE RunAllSerialized(RunSerialized(m, Head(sts)), Tail(sts))

\* res.status(code).json(...); rbFirst notes whether the request had
\* issued a ROLLBACK by then (history only)
Respond(m, r, code) ==
    [m EXCEPT !.reqs[r].resp = Append(@, code),
              !.reqs[r].rbFirst = m.reqs[r].rb]

(* ---------------- callbacks of PUT /api/restaurants/:id ---------------- *)
\* "if (cuisines.length >= 0)": the test guarding each category rewrite
CategoryProvided(list) == Len(list) >= 0

\* commitTransaction()
CommitTransaction(m, r) == Run(m, Stmt("COMMIT", r, "none", 0))

\* updateCuisinesTypesNeighborhoodsAndTags / updateTypes /
\* updateNeighborhoods / updateTags: rewrite category i, then the next one
RECURSIVE UpdateCategory(_, _, _, _)
UpdateCategory(m, r, i, serialize) ==
    IF i > 4 THEN CommitTransaction(m, r)
    ELSE IF CategoryProvided(m.reqs[r].lists[CatOrder[i]])
         THEN Schedule(m, Stmt("DELETE_LINKS_THEN", r, CatOrder[i], 0), serialize)
         ELSE UpdateCategory(m, r, i + 1, serialize)

\* the link/lookup statement pairs of one list, one promise each
LookupStmts(r, c, list) == [j \in 1..Len(list) |-> Stmt("INSERT_LOOKUP", r, c, j)]

\* every promise of the current Promise.all has resolved
AllResolved(m, r, c) ==
    IF m.reqs[r].kind = "PUT"
    THEN UpdateCategory(m, r, CatIndex(c) + 1, FALSE)
    ELSE CommitTransaction(m, r)

\* mutant: the continuation of Promise.all runs at every resolve()
Resolve_EveryPromise(m, r, c) ==
    LET m1 == [m EXCEPT !.reqs[r].left = @ - 1]
    IN  IF ~m1.reqs[r].rejected THEN AllResolved(m1, r, c) ELSE m1

\* resolve() of one promise
Resolve(m, r, c) ==
    LET m1 == [m EXCEPT !.reqs[r].left = @ - 1]
    IN  IF m1.reqs[r].left = 0 /\ ~m1.reqs[r].rejected
        THEN AllResolved(m1, r, c)
        ELSE m1

\* reject(err) of one promise: the first rejection runs the .catch handler
Reject(m, r) ==
    IF m.reqs[r].rejected THEN m
    ELSE Respond(Run([m EXCEPT !.reqs[r].rejected = TRUE],
                     Stmt("ROLLBACK", r, "none", 0)), r, 500)

(* ---------------- statements and their callbacks ---------------- *)
\* the restaurant_<c> insert violates the table's uniqueness constraint
LinkConflict(m, c, id, n) ==
    m.pairsUnique /\ n \in m.db.look[c] /\ BagIn(<<id, n>>, m.db.link[c])

LookupName(m, s) == Trim(m.reqs[s.req].lists[s.cat][s.idx])

OnBegin(m, s, fail) ==
    IF fail \/ m.tx THEN m ELSE [m EXCEPT !.tx = TRUE, !.snap = m.db]

OnRollback(m, s, fail) ==
    IF fail \/ ~m.tx THEN m
    ELSE [m EXCEPT !.tx = FALSE, !.db = m.snap, !.snap = EmptyDB]

\* db.run('COMMIT', cb) of the three handlers
OnCommit(m, s, fail) ==
    IF fail \/ ~m.tx THEN Respond(m, s.req, 500)
    ELSE Respond([m EXCEPT !.tx = FALSE, !.snap = EmptyDB], s.req, 200)

\* handleRestaurantRelationships
HandleRestaurantRelationships(m, r) ==
    LET l == m.reqs[r].lists
        sts == LookupStmts(r, "cuisines", l["cuisines"])
               \o LookupStmts(r, "types", l["types"])
               \o LookupStmts(r, "neighborhoods", l["neighborhoods"])
               \o LookupStmts(r, "tags", l["tags"])
        m1 == RunAll([m EXCEPT !.reqs[r].left = Len(sts),
                               !.reqs[r].rejected = FALSE], sts)
    IN  IF sts = <<>> THEN CommitTransaction(m1, r) ELSE m1

\* INSERT INTO restaurants ... and its callback
OnInsertRestaurant(m, s, fail) ==
    LET r == s.req
        id == NextId(m.db)
    IN  IF fail
        THEN Respond(Run(m, Stmt("ROLLBACK", r, "none", 0)), r, 500)
        ELSE HandleRestaurantRelationships(
                [m EXCEPT !.db = InsertRestaurant(@, id, PostRow(m.reqs[r]),
                                                  m.now),
                          !.reqs[r].id = id], r)

\* UPDATE restaurants SET ... WHERE id = ? and its callback
OnUpdateRestaurant(m, s, fail) ==
    LET r == s.req
        q == m.reqs[r]
    IN  IF fail
        THEN Respond(Run(m, Stmt("ROLLBACK", r, "none", 0)), r, 500)
        ELSE IF q.id \notin RestIds(m.db)
        THEN Respond(Run(m, Stmt("ROLLBACK", r, "none", 0)), r, 404)
        ELSE UpdateCategory(
                [m EXCEPT !.db = UpdateRestaurant(@, q.id, q, m.now)],
                r, 1, FALSE)

\* DELETE FROM restaurant_<c> of an update, and its callback
OnDeleteLinksThen(m, s, fail) ==
    LET r == s.req
        q == m.reqs[r]
        list == q.lists[s.cat]
    IN  IF fail
        THEN Respond(Run(m, Stmt("ROLLBACK", r, "none", 0)), r, 500)
        ELSE LET m1 == [m EXCEPT !.db = DeleteLinks(@, s.cat, q.id)]
             IN  IF Len(list) > 0
                 THEN RunAll([m1 EXCEPT !.reqs[r].left = Len(list),
                                        !.reqs[r].rejected = FALSE],
                             LookupStmts(r, s.cat, list))
                 ELSE UpdateCategory(m1, r, CatIndex(s.cat) + 1, FALSE)

\* DELETE FROM restaurant_<c> of the delete handler (no callback)
OnDeleteLinks(m, s, fail) ==
    IF fail THEN m
    ELSE [m EXCEPT !.db = DeleteLinks(@, s.cat, m.reqs[s.req].id)]

\* INSERT OR IGNORE INTO <c>; its callback ignores the error and links
OnInsertLookup(m, s, fail) ==
    LET m1 == IF fail THEN m
              ELSE [m EXCEPT !.db = InsertLookup(@, s.cat, LookupName(m, s))]
    IN  Run(m1, Stmt("INSERT_LINK", s.req, s.cat, s.idx))

\* INSERT INTO restaurant_<c> ... SELECT; its callback settles the promise
OnInsertLink(m, s, fail) ==
    LET id == m.reqs[s.req].id
        n == LookupName(m, s)
    IN  IF fail \/ LinkConflict(m, s.cat, id, n)
        THEN Reject(m, s.req)
        ELSE Resolve([m EXCEPT !.db = InsertLink(@, s.cat, id, n)], s.req, s.cat)

\* mutant: the 404 path answers without rolling back
OnDeleteRestaurant_NoRollback(m, s, fail) ==
    LET r == s.req
        q == m.reqs[r]
    IN  IF fail
        THEN Respond(Run(m, Stmt("ROLLBACK", r, "none", 0)), r, 500)
        ELSE IF q.id \notin RestIds(m.db)
        THEN Respond(m, r, 404)
        ELSE CommitTransaction([m EXCEPT !.db = DeleteRestaurant(@, q.id)], r)

\* DELETE FROM restaurants WHERE id = ? and its callback
OnDeleteRestaurant(m, s, fail) ==
    LET r == s.req
        q == m.reqs[r]
    IN  IF fail
        THEN Respond(Run(m, Stmt("ROLLBACK", r, "none", 0)), r, 500)
        ELSE IF q.id \notin RestIds(m.db)
        THEN Respond(Run(m, Stmt("ROLLBACK", r, "none", 0)), r, 404)
        ELSE CommitTransaction([m EXCEPT !.db = DeleteRestaurant(@, q.id)], r)

\* the statements of a request that write a row
WriteKinds ==
    {"INSERT_RESTAURANT", "UPDATE_RESTAURANT", "DELETE_RESTAURANT",
     "DELETE_LINKS_THEN", "DELETE_LINKS", "INSERT_LOOKUP", "INSERT_LINK"}

\* the statements of the migration that may end with an error
MigrateKinds == {"SELECT_LEGACY", "MIGRATE_LOOKUP", "MIGRATE_LINK"}

\* statement s ends with an error
StatementFails(m, s, fail) ==
    \/ fail
    \/ s.k = "INSERT_LINK"
         /\ LinkConflict(m, s.cat, m.reqs[s.req].id, LookupName(m, s))

\* the request remembers that one of its writes failed (history only)
NoteFailure(m, s, fail) ==
    LET m0 == IF s.k \in WriteKinds \cup MigrateKinds \cup {"COMMIT", "SELECT_COUNT"}
                 /\ StatementFails(m, s, fail)
              THEN [m EXCEPT !.reqs[s.req].fault = TRUE]
              ELSE m
    IN  IF s.k \in WriteKinds /\ StatementFails(m, s, fail)
        THEN [m0 EXCEPT !.reqs[s.req].failed = TRUE]
        ELSE m0

\* mutant: a missing row is answered like a found one
OnSelectOne_NoNotFound(m, s, fail) ==
    Respond([m EXCEPT !.reqs[s.req].out = OneRow(m.db, m.reqs[s.req].id)],
            s.req, 200)

\* db.get of GET /api/restaurants/:id and its callback
OnSelectOne(m, s, fail) ==
    LET r == s.req
        rows == OneRow(m.db, m.reqs[r].id)
    IN  IF fail THEN Respond(m, r, 500)
        ELSE IF rows = <<>> THEN Respond(m, r, 404)
        ELSE Respond([m EXCEPT !.reqs[r].out = <<rows[1]>>], r, 200)

\* db.all of GET /api/restaurants and its callback
OnSelectList(m, s, fail) ==
    LET r == s.req
        res == ListRows(m.db, m.reqs[r].qp)
    IN  IF fail \/ res.err THEN Respond(m, r, 500)
        ELSE Respond([m EXCEPT !.reqs[r].out = res.rows], r, 200)

\* mutant: a missing row is answered with no content at all
OnSelectScratchpad_NoDefault(m, s, fail) ==
    LET r == s.req
        rows == ScratchpadRows(m.db)
    IN  Respond([m EXCEPT !.reqs[r].out =
                    <<IF rows = {} THEN Null
                      ELSE (CHOOSE x \in rows : TRUE).content>>], r, 200)

\* db.get of GET /api/scratchpad and its callback:
\* res.json({ content: row ? row.content : '' })
OnSelectScratchpad(m, s, fail) ==
    LET r == s.req
        rows == ScratchpadRows(m.db)
    IN  IF fail THEN Respond(m, r, 500)
        ELSE Respond([m EXCEPT !.reqs[r].out =
                        <<IF rows = {} THEN <<>>
                          ELSE (CHOOSE x \in rows : TRUE).content>>], r, 200)

\* db.run of POST /api/scratchpad and its callback
OnReplaceScratchpad(m, s, fail) ==
    LET r == s.req
    IN  IF fail THEN Respond(m, r, 500)
        ELSE Respond([m EXCEPT !.db = ReplaceScratchpad(@, Bind(m.reqs[r].content))],
                     r, 200)

\* SELECT id, neighborhood FROM restaurants
\* WHERE neighborhood IS NOT NULL AND neighborhood != ""
LegacyIds(d) ==
    {i \in RestIds(d) : d.rest[i].neighborhood # Null
                        /\ d.rest[i].neighborhood # <<>>}

RECURSIVE LegacyWork(_, _)
\* the (restaurant, name) combinations of the selected rows, in the order
\* the two nested forEach loops visit them
LegacyWork(d, ids) ==
    IF ids = {} THEN <<>>
    ELSE LET i == CHOOSE x \in ids : \A y \in ids : x <= y
             names == ParseList(d.rest[i].neighborhood)
         IN  [j \in 1..Len(names) |-> [id |-> i, name |-> names[j]]]
             \o LegacyWork(d, ids \ {i})

\* INSERT OR IGNORE INTO restaurant_neighborhoods ... SELECT
InsertLinkOrIgnore(d, c, id, n, unique) ==
    IF unique /\ BagIn(<<id, n>>, d.link[c]) THEN d ELSE InsertLink(d, c, id, n)

\* db.all of POST /api/migrate-neighborhoods and its callback; left counts
\* the combinations still to complete (totalCombinations - completed)
OnSelectLegacy(m, s, fail) ==
    LET r == s.req
        work == LegacyWork(m.db, LegacyIds(m.db))
    IN  IF fail THEN Respond(m, r, 500)
        ELSE IF LegacyIds(m.db) = {} THEN Respond(m, r, 200)
        ELSE RunAllSerialized(
                [m EXCEPT !.reqs[r].work = work, !.reqs[r].left = Len(work),
                          !.reqs[r].errors = FALSE],
                <<Stmt("BEGIN", r, "none", 0)>>
                \o [j \in 1..Len(work) |->
                        Stmt("MIGRATE_LOOKUP", r, "neighborhoods", j)])

\* INSERT OR IGNORE INTO neighborhoods of the migration and its callback
OnMigrateLookup(m, s, fail) ==
    LET r == s.req
        m1 == IF fail THEN [m EXCEPT !.reqs[r].errors = TRUE]
              ELSE [m EXCEPT !.db = InsertLookup(@, s.cat, m.reqs[r].work[s.idx].name)]
    IN  Run(m1, Stmt("MIGRATE_LINK", r, s.cat, s.idx))

\* the link insert of the migration and its callback
OnMigrateLink(m, s, fail) ==
    LET r == s.req
        w == m.reqs[r].work[s.idx]
        m1 == IF fail THEN [m EXCEPT !.reqs[r].errors = TRUE]
              ELSE [m EXCEPT !.db = InsertLinkOrIgnore(@, s.cat, w.id, w.name,
                                                       m.pairsUnique)]
        m2 == [m1 EXCEPT !.reqs[r].left = @ - 1]
    IN  IF m2.reqs[r].left # 0 THEN m2
        ELSE IF m2.reqs[r].errors
        THEN Respond(Run(m2, Stmt("ROLLBACK", r, "none", 0)), r, 500)
        ELSE Run(m2, Stmt("COMMIT", r, "none", 0))

\* the keys of the queries array of app.get('/api/stats'), in order
StatsKeys ==
    <<"total_restaurants", "visited_restaurants", "liked_restaurants",
      "total_cuisines", "total_types", "total_tags">>

\* SELECT COUNT(*) as count FROM ... of the query with the given key
CountOf(d, key) ==
    CASE key = "total_restaurants" -> Cardinality(RestIds(d))
      [] key = "visited_restaurants" ->
            Cardinality({i \in RestIds(d) : d.rest[i].status = sVisited})
      [] key = "liked_restaurants" ->
            Cardinality({i \in RestIds(d) : d.rest[i].liked = 1})
      [] key = "total_cuisines" -> Cardinality(d.look["cuisines"])
      [] key = "total_types" -> Cardinality(d.look["types"])
      [] key = "total_tags" -> Cardinality(d.look["tags"])

\* stats[key] = row.count
SetStat(st, key, n) ==
    [k \in DOMAIN st \cup {key} |-> IF k = key THEN n ELSE st[k]]

\* db.get of one query of app.get('/api/stats') and its callback; left
\* counts the callbacks still to come (queries.length - completed)
OnSelectCount(m, s, fail) ==
    LET r == s.req
        key == StatsKeys[s.idx]
        m1 == [m EXCEPT !.reqs[r].stats =
                  IF fail THEN @ ELSE SetStat(@, key, CountOf(m.db, key)),
                        !.reqs[r].left = @ - 1]
    IN  IF m1.reqs[r].left = 0
        THEN Respond([m1 EXCEPT !.reqs[r].out = <<m1.reqs[r].stats>>], r, 200)
        ELSE m1

\* the engine executes statement s and the callback of s runs
Execute(m, s, fail) ==
    CASE s.k = "BEGIN" -> OnBegin(m, s, fail)
      [] s.k = "ROLLBACK" -> OnRollback(m, s, fail)
      [] s.k = "COMMIT" -> OnCommit(m, s, fail)
      [] s.k = "INSERT_RESTAURANT" -> OnInsertRestaurant(m, s, fail)
      [] s.k = "UPDATE_RESTAURANT" -> OnUpdateRestaurant(m, s, fail)
      [] s.k = "DELETE_LINKS_THEN" -> OnDeleteLinksThen(m, s, fail)
      [] s.k = "DELETE_LINKS" -> OnDeleteLinks(m, s, fail)
      [] s.k = "INSERT_LOOKUP" -> OnInsertLookup(m, s, fail)
      [] s.k = "INSERT_LINK" -> OnInsertLink(m, s, fail)
      [] s.k = "DELETE_RESTAURANT" -> OnDeleteRestaurant(m, s, fail)
      [] s.k = "SELECT_ONE" -> OnSelectOne(m, s, fail)
      [] s.k = "SELECT_LIST" -> OnSelectList(m, s, fail)
      [] s.k = "SELECT_SCRATCHPAD" -> OnSelectScratchpad(m, s, fail)
      [] s.k = "REPLACE_SCRATCHPAD" -> OnReplaceScratchpad(m, s, fail)
      [] s.k = "SELECT_COUNT" -> OnSelectCount(m, s, fail)
      [] s.k = "SELECT_LEGACY" -> OnSelectLegacy(m, s, fail)
      [] s.k = "MIGRATE_LOOKUP" -> OnMigrateLookup(m, s, fail)
      [] s.k = "MIGRATE_LINK" -> OnMigrateLink(m, s, fail)

(* ---------------- request handlers ---------------- *)
\* mutant: the name is tested without trimming it
NameMissing_NoTrim(given, name) == ~given \/ name = <<>>

\* "if (!name || !name.trim())"
NameMissing(given, name) == ~given \/ name = <<>> \/ Trim(name) = <<>>

\* "updates.length === 0 && cuisines.length === 0 && ... && tags.length === 0"
HasUpdates(q) ==
    q.nameGiven \/ q.likedGiven \/ \E f \in StrCols : q.sc[f] # Absent

NoValidFields(q) ==
    /\ ~HasUpdates(q)
    /\ Len(q.lists["cuisines"]) = 0
    /\ Len(q.lists["types"]) = 0
    /\ Len(q.lists["neighborhoods"]) = 0
    /\ Len(q.lists["tags"]) = 0

\* the join tables the delete handler empties for the restaurant
DeleteHandlerCats == <<"cuisines", "types", "tags">>

\* app.post('/api/restaurants')
PostHandler(m, r) ==
    LET q == m.reqs[r]
    IN  IF NameMissing(q.nameGiven, q.name)
        THEN Respond(m, r, 400)
        ELSE RunAllSerialized(m, <<Stmt("BEGIN", r, "none", 0),
                                   Stmt("INSERT_RESTAURANT", r, "none", 0)>>)

\* mutant: the 400 is sent without ending the transaction
RejectNoOp_NoRollback(m, r) == Respond(m, r, 400)

\* what app.put does once BEGIN TRANSACTION is queued and a body with
\* nothing to change is recognised
RejectNoOp(m, r) ==
    Respond(RunSerialized(m, Stmt("ROLLBACK", r, "none", 0)), r, 400)

\* app.put('/api/restaurants/:id')
PutHandler(m, r) ==
    LET q == m.reqs[r]
        m1 == RunSerialized(m, Stmt("BEGIN", r, "none", 0))
    IN  IF NoValidFields(q)
        THEN RejectNoOp(m1, r)
        ELSE IF HasUpdates(q)
        THEN RunSerialized(m1, Stmt("UPDATE_RESTAURANT", r, "none", 0))
        ELSE UpdateCategory(m1, r, 1, TRUE)

\* what app.delete queues inside db.serialize
DeleteHandlerStmts(r) ==
    <<Stmt("BEGIN", r, "none", 0)>>
    \o [j \in 1..Len(DeleteHandlerCats) |->
            Stmt("DELETE_LINKS", r, DeleteHandlerCats[j], 0)]
    \o <<Stmt("DELETE_RESTAURANT", r, "none", 0)>>

\* app.delete('/api/restaurants/:id')
DeleteHandler(m, r) == RunAllSerialized(m, DeleteHandlerStmts(r))

(* ---------------- the state machine ---------------- *)
Machine ==
    [db |-> db, tx |-> tx, snap |-> snap, queue |-> queue,
     inflight |-> inflight, locked |-> locked, reqs |-> reqs,
     pairsUnique |-> pairsUnique, now |-> nreq]

Install(m) ==
    /\ db' = m.db
    /\ tx' = m.tx
    /\ snap' = m.snap
    /\ queue' = m.queue
    /\ inflight' = m.inflight
    /\ locked' = m.locked
    /\ reqs' = m.reqs

Pending(r) ==
    \/ \E s \in inflight : s.req = r
    \/ \E j \in 1..Len(queue) : queue[j].req = r

\* the request of slot r has run every statement it queued
Done(r) == reqs[r].kind # "none" /\ ~Pending(r)

Quiet == queue = <<>> /\ inflight = {}

FreeSlots == {r \in Slots : reqs[r].kind = "none"}

\* a request may start: one at a time unless requests may overlap
CanStart ==
    /\ nreq < MaxReqs
    /\ FreeSlots # {}
    /\ overlap \/ (Quiet /\ FreeSlots = Slots)

\* the server is handling no request
Idle == Quiet /\ FreeSlots = Slots

NewSlot == CHOOSE r \in FreeSlots : \A o \in FreeSlots : r <= o

\* a JSON body: the fields the handlers destructure
Body(given, name, lists, sc, likedGiven, liked) ==
    [nameGiven |-> given, name |-> name, lists |-> lists, sc |-> sc,
     likedGiven |-> likedGiven, liked |-> liked]

NoBody == Body(FALSE, <<>>, NoLists, NoScalars, FALSE, FALSE)

\* bodies that vary the name and the association lists
LinkBodies ==
    {Body(given, name, lists, NoScalars, FALSE, FALSE) :
        given \in BOOLEAN, name \in NamePool, lists \in BodyLists}

NewReq(kind, id, b) ==
    [kind |-> kind, id |-> id, nameGiven |-> b.nameGiven, name |-> b.name,
     lists |-> b.lists, sc |-> b.sc, likedGiven |-> b.likedGiven,
     liked |-> b.liked, qp |-> NoParams, out |-> <<>>,
     pre |-> db, preTx |-> tx, resp |-> <<>>, left |-> 0,
     rejected |-> FALSE, failed |-> FALSE,
     fault |-> FALSE, rb |-> FALSE, rbFirst |-> FALSE,
     content |-> Absent, stats |-> <<>>, work |-> <<>>, errors |-> FALSE]

Unexecuted(k) ==
    Cardinality({s \in inflight : s.k = k})
    + Cardinality({j \in 1..Len(queue) : queue[j].k = k})

\* POST /api/restaurants arrives with one of the bodies
Create(bodies) ==
    /\ CanStart
    /\ \E b \in bodies :
        /\ b.nameGiven \/ b.name = <<>>
        /\ NameMissing(b.nameGiven, b.name)
             \/ NextId(db) + Unexecuted("INSERT_RESTAURANT") <= MaxId
        /\ LET r == NewSlot
               m == [Machine EXCEPT !.reqs[r] = NewReq("POST", 0, b)]
           IN  Install(Process(PostHandler(m, r)))
    /\ nreq' = nreq + 1
    /\ UNCHANGED <<pairsUnique, faults, overlap, lastPost>>

\* PUT /api/restaurants/:id arrives with one of the bodies
Update(bodies) ==
    /\ CanStart
    /\ \E id \in Ids, b \in bodies :
        /\ b.nameGiven \/ b.name = <<>>
        /\ LET r == NewSlot
               m == [Machine EXCEPT !.reqs[r] = NewReq("PUT", id, b)]
           IN  Install(Process(PutHandler(m, r)))
    /\ nreq' = nreq + 1
    /\ UNCHANGED <<pairsUnique, faults, overlap, lastPost>>

StartCreate == Create(LinkBodies)

StartUpdate == Update(LinkBodies)

StartDelete ==
    /\ CanStart
    /\ \E id \in Ids :
        LET r == NewSlot
            m == [Machine EXCEPT !.reqs[r] = NewReq("DELETE", id, NoBody)]
        IN  Install(Process(DeleteHandler(m, r)))
    /\ nreq' = nreq + 1
    /\ UNCHANGED <<pairsUnique, faults, overlap, lastPost>>

\* app.get('/api/restaurants/:id')
GetHandler(m, r) == Run(m, Stmt("SELECT_ONE", r, "none", 0))

\* app.get('/api/restaurants')
ListHandler(m, r) == Run(m, Stmt("SELECT_LIST", r, "none", 0))

StartGet ==
    /\ CanStart
    /\ \E id \in Ids :
        LET r == NewSlot
            m == [Machine EXCEPT !.reqs[r] = NewReq("GET", id, NoBody)]
        IN  Install(Process(GetHandler(m, r)))
    /\ nreq' = nreq + 1
    /\ UNCHANGED <<pairsUnique, faults, overlap, lastPost>>

\* GET /api/restaurants arrives with one of the parameter sets
List(params) ==
    /\ CanStart
    /\ \E p \in params :
        LET r == NewSlot
            m == [Machine EXCEPT
                    !.reqs[r] = [NewReq("LIST", 0, NoBody) EXCEPT !.qp = p]]
        IN  Install(Process(ListHandler(m, r)))
    /\ nreq' = nreq + 1
    /\ UNCHANGED <<pairsUnique, faults, overlap, lastPost>>

\* app.get('/api/stats'): queries.forEach(... db.get ...)
StatsHandler(m, r) ==
    RunAll([m EXCEPT !.reqs[r].left = Len(StatsKeys)],
           [i \in 1..Len(StatsKeys) |-> Stmt("SELECT_COUNT", r, "none", i)])

StartStats ==
    /\ CanStart
    /\ LET r == NewSlot
           m == [Machine EXCEPT !.reqs[r] = NewReq("STATS", 0, NoBody)]
       IN  Install(Process(StatsHandler(m, r)))
    /\ nreq' = nreq + 1
    /\ UNCHANGED <<pairsUnique, faults, overlap, lastPost>>

\* an empty body, a body with a name and a cuisine, a body with a type only
FewBodies ==
    {NoBody,
     Body(TRUE, sSpA, [NoLists EXCEPT !["cuisines"] = <<sA>>], NoScalars,
          FALSE, FALSE),
     Body(FALSE, <<>>, [NoLists EXCEPT !["types"] = <<sB>>], NoScalars,
          FALSE, FALSE)}

StartCreateFew == Create(FewBodies)

StartUpdateFew == Update(FewBodies)

\* a storage failure may strike a write or the COMMIT
FailChoices(s) ==
    IF faults > 0
       /\ s.k \in WriteKinds \cup MigrateKinds
                  \cup {"COMMIT", "REPLACE_SCRATCHPAD", "SELECT_COUNT"}
    THEN BOOLEAN ELSE {FALSE}

\* the statements the handlers issue with no callback: db.run('BEGIN
\* TRANSACTION'), db.run('ROLLBACK') and the three DELETEs of app.delete
NoCallbackKinds == {"BEGIN", "ROLLBACK", "DELETE_LINKS"}

\* statement s was issued with no callback and ends with an error: a
\* storage failure, BEGIN inside a transaction, ROLLBACK outside one
UnheardError(m, s, fail) ==
    /\ s.k \in NoCallbackKinds
    /\ \/ fail
       \/ s.k = "BEGIN" /\ m.tx
       \/ s.k = "ROLLBACK" /\ ~m.tx

\* the process ends on an 'error' event nobody listens to (the server
\* registers no 'error' listener and no uncaughtException handler) and PM2
\* starts it again: the statements queued and in flight are gone with the
\* connection, their requests are never answered, and the engine rolls the
\* open transaction back when the file is opened again
Terminate(m) ==
    [m EXCEPT !.queue = <<>>, !.inflight = {}, !.locked = FALSE,
              !.tx = FALSE, !.snap = EmptyDB,
              !.db = IF m.tx THEN m.snap ELSE m.db]

\* the driver reports the error of a statement without callback as an
\* 'error' event on the statement object; the driver is not part of the
\* repository, so both outcomes are kept: the event is dropped, or it is
\* thrown as an unhandled 'error' event
StopChoices(m, s, fail) ==
    IF UnheardError(m, s, fail) THEN BOOLEAN ELSE {FALSE}

\* the engine executes one of the statements in flight
ExecStatement ==
    \E s \in inflight : \E fail \in FailChoices(s) :
      \E stop \in StopChoices(Machine, s, fail) :
        /\ LET m0 == NoteFailure(Machine, s, fail)
               m1 == IF stop THEN Terminate(m0) ELSE Execute(m0, s, fail)
           IN  Install(Process([m1 EXCEPT !.inflight = @ \ {s}]))
        /\ faults' = IF fail THEN faults - 1 ELSE faults
        /\ lastPost' = IF s.k = "REPLACE_SCRATCHPAD" /\ ~fail
                       THEN Bind(reqs[s.req].content) ELSE lastPost
        /\ UNCHANGED <<nreq, pairsUnique, overlap>>

\* a finished request leaves its slot
Retire ==
    \E r \in Slots :
        /\ Done(r)
        /\ reqs' = [reqs EXCEPT ![r] = NoReq]
        /\ UNCHANGED <<db, tx, snap, queue, inflight, locked, nreq,
                       pairsUnique, faults, overlap, lastPost>>

\* the server has opened the database and handled no request yet
Started ==
    /\ db = EmptyDB
    /\ tx = FALSE
    /\ snap = EmptyDB
    /\ queue = <<>>
    /\ inflight = {}
    /\ locked = FALSE
    /\ reqs = [r \in Slots |-> NoReq]
    /\ nreq = 0
    /\ pairsUnique \in BOOLEAN
    /\ lastPost = NoPost

\* requests arrive one at a time and the storage engine does not fail
Init ==
    /\ Started
    /\ faults = 0
    /\ overlap = FALSE

\* requests arrive one at a time; statements may fail
FaultInit ==
    /\ Started
    /\ faults \in 0..MaxFaults
    /\ overlap = FALSE

Next ==
    \/ StartCreate
    \/ StartUpdate
    \/ StartDelete
    \/ StartGet
    \/ ExecStatement
    \/ Retire

Spec == Init /\ [][Next]_vars

FaultNext ==
    \/ StartCreateFew
    \/ StartUpdateFew
    \/ StartDelete
    \/ ExecStatement
    \/ Retire

FaultSpec == FaultInit /\ [][FaultNext]_vars

(* ---------------- scalar columns: bodies that vary the scalar fields ---- *)
\* name, notes, status and liked each absent or present (notes also as the
\* empty string); at most one association name
ScalarBodies ==
    {Body(given, name, lists, [NoScalars EXCEPT !["notes"] = notes,
                                                !["status"] = status],
          likedGiven, liked) :
        given \in BOOLEAN, name \in {sSpA, sEmpty},
        lists \in {NoLists, [NoLists EXCEPT !["cuisines"] = <<sComma>>]},
        notes \in {Absent, sEmpty, sA}, status \in {Absent, sB},
        likedGiven \in BOOLEAN, liked \in BOOLEAN}

\* the database after POST {name: "b", notes: "b", liked: true}
SeededDB ==
    InsertRestaurant(EmptyDB, 1,
        PostRow(Body(TRUE, sB, NoLists, [NoScalars EXCEPT !["notes"] = sB],
                     TRUE, TRUE)), 0)

StartCreateScalars == Create(ScalarBodies)

StartUpdateScalars == Update(ScalarBodies)

\* one restaurant exists; requests arrive one at a time, nothing fails
ScalarInit ==
    /\ db = SeededDB
    /\ tx = FALSE
    /\ snap = EmptyDB
    /\ queue = <<>>
    /\ inflight = {}
    /\ locked = FALSE
    /\ reqs = [r \in Slots |-> NoReq]
    /\ nreq = 0
    /\ pairsUnique \in BOOLEAN
    /\ faults = 0
    /\ overlap = FALSE
    /\ lastPost = NoPost

ScalarNext ==
    \/ StartCreateScalars
    \/ StartUpdateScalars
    \/ StartDelete
    \/ ExecStatement
    \/ Retire

ScalarSpec == ScalarInit /\ [][ScalarNext]_vars

(* ---------------- overlapping requests ---------------- *)
\* one restaurant exists; a request may arrive while another one still has
\* statements to run; nothing fails
ConcInit ==
    /\ db = SeededDB
    /\ tx = FALSE
    /\ snap = EmptyDB
    /\ queue = <<>>
    /\ inflight = {}
    /\ locked = FALSE
    /\ reqs = [r \in Slots |-> NoReq]
    /\ nreq = 0
    /\ pairsUnique \in BOOLEAN
    /\ faults = 0
    /\ overlap = TRUE
    /\ lastPost = NoPost

ConcNext ==
    \/ StartCreateFew
    \/ StartUpdateFew
    \/ StartDelete
    \/ ExecStatement
    \/ Retire

ConcSpec == ConcInit /\ [][ConcNext]_vars

(* ---------------- the scratchpad ---------------- *)
\* req.body.content of POST /api/scratchpad
ContentPool == {Absent, sEmpty, sA, sB}

\* app.get('/api/scratchpad')
StartPadGet ==
    /\ Idle
    /\ LET r == NewSlot
           m == [Machine EXCEPT !.reqs[r] = NewReq("PADGET", 0, NoBody)]
       IN  Install(Process(Run(m, Stmt("SELECT_SCRATCHPAD", r, "none", 0))))
    /\ UNCHANGED <<nreq, pairsUnique, faults, overlap, lastPost>>

\* app.post('/api/scratchpad')
StartPadPost ==
    /\ Idle
    /\ \E c \in ContentPool :
        LET r == NewSlot
            m == [Machine EXCEPT
                    !.reqs[r] = [NewReq("PADPOST", 0, NoBody) EXCEPT !.content = c]]
        IN  Install(Process(Run(m, Stmt("REPLACE_SCRATCHPAD", r, "none", 0))))
    /\ UNCHANGED <<nreq, pairsUnique, faults, overlap, lastPost>>

\* scratchpad requests arrive one at a time; a write may fail
PadInit ==
    /\ Started
    /\ faults \in 0..MaxFaults
    /\ overlap = FALSE

PadNext ==
    \/ StartPadGet
    \/ StartPadPost
    \/ ExecStatement
    \/ Retire

PadSpec == PadInit /\ [][PadNext]_vars

(* ---------------- statistics ---------------- *)
\* a visited and liked place with a neighborhood and a tag, a place with a
\* cuisine
StatsBodies ==
    {Body(TRUE, sSpA, [NoLists EXCEPT !["neighborhoods"] = <<sA>>,
                                      !["tags"] = <<sB>>],
          [NoScalars EXCEPT !["status"] = sVisited], TRUE, TRUE),
     Body(TRUE, sB, [NoLists EXCEPT !["cuisines"] = <<sA, sB>>], NoScalars,
          FALSE, FALSE)}

StartCreateStats == Create(StatsBodies)

StatsNext ==
    \/ StartCreateStats
    \/ StartUpdateFew
    \/ StartDelete
    \/ StartStats
    \/ ExecStatement
    \/ Retire

\* requests arrive one at a time; a statement may fail
StatsSpec == FaultInit /\ [][StatsNext]_vars

(* ---------------- the neighborhood migration ---------------- *)
\* app.post('/api/migrate-neighborhoods')
StartMigrate ==
    /\ CanStart
    /\ LET r == NewSlot
           m == [Machine EXCEPT !.reqs[r] = NewReq("MIGRATE", 0, NoBody)]
       IN  Install(Process(Run(m, Stmt("SELECT_LEGACY", r, "none", 0))))
    /\ nreq' = nreq + 1
    /\ UNCHANGED <<pairsUnique, faults, overlap, lastPost>>

\* the legacy neighborhood text of a body: absent, empty, separators and
\* blanks only, one name, two names
LegacyTexts == {Absent, sEmpty, <<",">>, <<" ", ",">>, sA, sComma}

LegacyBodies ==
    {Body(TRUE, sSpA, lists, [NoScalars EXCEPT !["neighborhood"] = t],
          FALSE, FALSE) :
        lists \in {NoLists, [NoLists EXCEPT !["neighborhoods"] = <<sA>>]},
        t \in LegacyTexts}

StartCreateLegacy == Create(LegacyBodies)

\* the database after POST {name: " a", neighborhood: t}
LegacyDB(t) ==
    InsertRestaurant(EmptyDB, 1,
        PostRow(Body(TRUE, sSpA, NoLists,
                     [NoScalars EXCEPT !["neighborhood"] = t], FALSE, FALSE)), 0)

\* no restaurant or one restaurant exists; requests arrive one at a time;
\* a statement may fail
MigrateInit ==
    /\ db \in {EmptyDB} \cup {LegacyDB(t) : t \in {<<",">>, sComma}}
    /\ tx = FALSE
    /\ snap = EmptyDB
    /\ queue = <<>>
    /\ inflight = {}
    /\ locked = FALSE
    /\ reqs = [r \in Slots |-> NoReq]
    /\ nreq = 0
    /\ pairsUnique \in BOOLEAN
    /\ faults \in 0..MaxFaults
    /\ overlap = FALSE
    /\ lastPost = NoPost

MigrateNext ==
    \/ StartCreateLegacy
    \/ StartMigrate
    \/ ExecStatement
    \/ Retire

MigrateSpec == MigrateInit /\ [][MigrateNext]_vars

(* ---------------- reads: databases and query strings to read ------- *)

\* scalar columns of a stored restaurant (name apart)
SampleScalars ==
    {[notes |-> Null, what_to_order |-> Null, borough |-> Null,
      status |-> sUnvisited, liked |-> 0, neighborhood |-> Null],
     [notes |-> sUpB, what_to_order |-> Null, borough |-> sB,
      status |-> sUnvisited, liked |-> 1, neighborhood |-> Null],
     [notes |-> Null, what_to_order |-> sA, borough |-> sA,
      status |-> sB, liked |-> 0, neighborhood |-> Null]}

NoLinks == [c \in Cat |-> {}]

\* names a stored restaurant is linked to, per category
SampleLinks ==
    {NoLinks,
     [NoLinks EXCEPT !["cuisines"] = {sAB}, !["types"] = {sA}],
     [NoLinks EXCEPT !["cuisines"] = {sA, sB}, !["neighborhoods"] = {sA},
                     !["tags"] = {sA}],
     [NoLinks EXCEPT !["cuisines"] = {sComma}, !["tags"] = {sColon, sB}]}

\* the color of a stored tag row: tag b has none
SampleColor(t) == IF t = sB THEN Null ELSE sRed

Place(name, sc, links) ==
    [row |-> [name |-> name, notes |-> sc.notes,
              what_to_order |-> sc.what_to_order, borough |-> sc.borough,
              status |-> sc.status, liked |-> sc.liked,
              neighborhood |-> sc.neighborhood],
     links |-> links]

\* the database file that holds the places ps[1], ps[2], ... under ids 1, 2, ...
SampleDB(ps) ==
    LET names(c) == UNION {ps[i].links[c] : i \in 1..Len(ps)}
    IN  [rest |-> [i \in 1..Len(ps) |-> ps[i].row],
         look |-> [c \in Cat |-> names(c)],
         link |-> [c \in Cat |->
                    SetToBag({x \in (1..Len(ps)) \X names(c) :
                                x[2] \in ps[x[1]].links[c]})],
         color |-> [t \in names("tags") |-> SampleColor(t)],
         pad |-> {},
         stamp |-> [i \in 1..Len(ps) |-> 0]]

FirstPlaces ==
    {Place(n, sc, l) : n \in {sB, sAB}, sc \in SampleScalars, l \in SampleLinks}

SecondPlaces ==
    {Place(n, sc, l) :
        n \in {sA, sB},
        sc \in {x \in SampleScalars : x.status = sUnvisited},
        l \in {x \in SampleLinks : x["types"] = {}}}

SampleDBs ==
    {EmptyDB} \cup {SampleDB(<<a>>) : a \in FirstPlaces}
    \cup {SampleDB(<<a, b>>) : a \in FirstPlaces, b \in SecondPlaces}

\* how many parameters one query string carries
MaxParams == 3

Given(p) ==
    {f \in DOMAIN p : p[f] # Absent}

\* query strings of GET /api/restaurants
ParamPool ==
    {p \in [search : {Absent, sUpB, sOne},
             cuisines : {Absent, sA, sComma, <<",">>},
             types : {Absent, sA},
             tags : {Absent, sA},
             neighborhoods : {Absent, sA},
             boroughs : {Absent, sB},
             status : {Absent, sUnvisited},
             liked : {Absent, sTrue, sB},
             limit : {Absent, sOne},
             offset : {Absent, sOne}] :
        Cardinality(Given(p)) <= MaxParams}

StartList == List(ParamPool)

\* the server has opened a database file that holds up to two restaurants
QueryInit ==
    /\ db \in SampleDBs
    /\ tx = FALSE
    /\ snap = EmptyDB
    /\ queue = <<>>
    /\ inflight = {}
    /\ locked = FALSE
    /\ reqs = [r \in Slots |-> NoReq]
    /\ nreq = MaxReqs - 1
    /\ pairsUnique = TRUE
    /\ faults = 0
    /\ overlap = FALSE
    /\ lastPost = NoPost

QueryNext ==
    \/ StartGet
    \/ StartList
    \/ ExecStatement
    \/ Retire

\* the two restaurant reads against a stored database
QuerySpec == QueryInit /\ [][QueryNext]_vars

(* ---------------- what the claims speak about ---------------- *)
\* the set of trimmed names a list supplies
Supplied(list) == {Trim(list[j]) : j \in 1..Len(list)}

\* a name that is missing, empty or whitespace only
BlankName(given, name) == ~given \/ \A j \in 1..Len(name) : name[j] = " "

\* a body with no scalar field and no association name
EmptyBody(q) ==
    /\ ~q.nameGiven
    /\ ~q.likedGiven
    /\ \A f \in StrCols : q.sc[f] = Absent
    /\ \A c \in Cat : q.lists[c] = <<>>

\* a list that names the same lookup value twice
HasDuplicate(list) ==
    \E i, j \in 1..Len(list) : i # j /\ Trim(list[i]) = Trim(list[j])

IsWrite(q) == q.kind \in {"POST", "PUT"}

\* C1: after a successful create or update the names linked to the
\* restaurant in each category are exactly the trimmed names supplied.
C1_LinksEqualSupplied ==
    \A r \in Slots :
        (Done(r) /\ IsWrite(reqs[r]) /\ reqs[r].resp = <<200>>)
        => \A c \in Cat :
             Linked(db, c, reqs[r].id) = Supplied(reqs[r].lists[c])

\* C2: a create or update one of whose statements failed answers with an
\* error and, once its statements have run, has left the database as it
\* was before the request.
C2_FailedWriteLeavesNothing ==
    \A r \in Slots :
        (Done(r) /\ IsWrite(reqs[r]) /\ reqs[r].failed)
        => /\ reqs[r].resp = <<500>>
           /\ db = reqs[r].pre

\* C3: an update whose body supplies only tags: [] succeeds, clears the
\* tags of the restaurant and leaves the other categories alone; an
\* update changes only the categories whose list the body carries.
C3_OnlySuppliedCategoriesChange ==
    \A r \in Slots :
        (Done(r) /\ reqs[r].kind = "PUT"
         /\ reqs[r].id \in RestIds(reqs[r].pre) /\ ~reqs[r].nameGiven
         /\ \A c \in Cat \ {"tags"} : reqs[r].lists[c] = <<>>)
        => /\ reqs[r].resp = <<200>>
           /\ Linked(db, "tags", reqs[r].id) = Supplied(reqs[r].lists["tags"])
           /\ \A c \in Cat \ {"tags"} :
                Linked(db, c, reqs[r].id) = Linked(reqs[r].pre, c, reqs[r].id)

\* C4: an update of an id that matches no restaurant answers 404 and
\* leaves every table unchanged, whatever the (non-empty) body carries.
C4_UpdateUnknownId ==
    \A r \in Slots :
        (Done(r) /\ reqs[r].kind = "PUT"
         /\ reqs[r].id \notin RestIds(reqs[r].pre) /\ ~EmptyBody(reqs[r]))
        => /\ reqs[r].resp = <<404>>
           /\ db = reqs[r].pre

\* C5: after a successful delete the restaurant row is gone and no row of
\* any of the four join tables references the deleted id.
C5_DeleteRemovesAllLinks ==
    \A r \in Slots :
        (Done(r) /\ reqs[r].kind = "DELETE" /\ reqs[r].resp = <<200>>)
        => /\ reqs[r].id \notin RestIds(db)
           /\ \A c \in Cat : Linked(db, c, reqs[r].id) = {}

\* C6: a delete of an id that matches no restaurant answers 404 and leaves
\* the restaurants table, the lookup tables and the join tables as they were.
C6_DeleteUnknownId ==
    \A r \in Slots :
        (Done(r) /\ reqs[r].kind = "DELETE"
         /\ reqs[r].id \notin RestIds(reqs[r].pre))
        => /\ reqs[r].resp = <<404>>
           /\ db = reqs[r].pre
           /\ ~tx

C6_Witness ==
    \E r \in Slots :
        /\ Done(r) /\ reqs[r].kind = "DELETE"
        /\ reqs[r].id \notin RestIds(reqs[r].pre)
        /\ reqs[r].resp = <<404>>
        /\ Linked(db, "cuisines", reqs[r].id) # {}

\* C7: a create or update whose list names a lookup value twice succeeds
\* with one lookup row and one link row for the pair, and no join table
\* ever holds two rows for the same pair.
C7_DuplicateNamesLinkOnce ==
    /\ (Quiet /\ ~tx)
         => \A c \in Cat : \A p \in DOMAIN db.link[c] : db.link[c][p] <= 1
    /\ \A r \in Slots :
        (Done(r) /\ IsWrite(reqs[r])
         /\ (reqs[r].kind = "POST" => ~BlankName(reqs[r].nameGiven, reqs[r].name))
         /\ (reqs[r].kind = "PUT" => reqs[r].id \in RestIds(reqs[r].pre))
         /\ \E c \in Cat : HasDuplicate(reqs[r].lists[c]))
        => /\ reqs[r].resp = <<200>>
           /\ \A c \in Cat : \A n \in Supplied(reqs[r].lists[c]) :
                /\ n \in db.look[c]
                /\ CopiesIn(<<reqs[r].id, n>>, db.link[c]) = 1

\* C8: a create whose name is missing, empty or whitespace answers 400,
\* writes no row and starts no transaction.
C8_BlankNameRejected ==
    \A r \in Slots :
        (reqs[r].kind = "POST" /\ BlankName(reqs[r].nameGiven, reqs[r].name))
        => /\ reqs[r].resp = <<400>>
           /\ ~Pending(r)
           /\ db = reqs[r].pre
           /\ ~tx

C8_Witness ==
    \E r \in Slots :
        /\ reqs[r].kind = "POST"
        /\ reqs[r].nameGiven /\ reqs[r].name = sSp
        /\ reqs[r].lists["cuisines"] # <<>>
        /\ reqs[r].resp = <<400>>

\* C9: every stored restaurant has a name that is non-empty after trimming.
C9_StoredNamesNonEmpty ==
    (Quiet /\ ~tx) => \A id \in RestIds(db) : Trim(db.rest[id].name) # <<>>

\* C10: an update whose body has no scalar field and no list answers 400,
\* changes no row and leaves no transaction open.
C10_EmptyUpdateRejected ==
    \A r \in Slots :
        (Done(r) /\ reqs[r].kind = "PUT" /\ EmptyBody(reqs[r]))
        => /\ reqs[r].resp = <<400>>
           /\ db = reqs[r].pre
           /\ ~tx

C10_Witness ==
    \E r \in Slots :
        /\ Done(r) /\ reqs[r].kind = "PUT" /\ EmptyBody(reqs[r])
        /\ reqs[r].id \in RestIds(db)
        /\ reqs[r].resp = <<400>>

\* the value a column holds once a present body field is stored in it
StoredName(q) == Trim(q.name)
StoredLiked(q) == IF q.liked THEN 1 ELSE 0

\* C11: after a successful PUT the row of the restaurant holds, in each
\* scalar column whose field the body carries, the supplied value (the empty
\* string included), every other scalar column holds what it held before the
\* request, and the row of every other restaurant is what it was
C11_OnlyPresentColumnsChange ==
    \A r \in Slots :
        (Done(r) /\ reqs[r].kind = "PUT" /\ reqs[r].resp = <<200>>) =>
            LET q == reqs[r]
                old == q.pre.rest
            IN  /\ RestIds(db) = DOMAIN old
                /\ \A i \in DOMAIN old : i # q.id => db.rest[i] = old[i]
                /\ q.id \in DOMAIN old =>
                      LET row == db.rest[q.id]
                      IN  /\ row.name = IF q.nameGiven THEN StoredName(q)
                                        ELSE old[q.id].name
                          /\ row.liked = IF q.likedGiven THEN StoredLiked(q)
                                         ELSE old[q.id].liked
                          /\ row.notes = IF q.sc["notes"] # Absent
                                         THEN q.sc["notes"] ELSE old[q.id].notes
                          /\ row.what_to_order =
                                IF q.sc["what_to_order"] # Absent
                                THEN q.sc["what_to_order"]
                                ELSE old[q.id].what_to_order
                          /\ row.borough = IF q.sc["borough"] # Absent
                                           THEN q.sc["borough"]
                                           ELSE old[q.id].borough
                          /\ row.status = IF q.sc["status"] # Absent
                                          THEN q.sc["status"]
                                          ELSE old[q.id].status
                          /\ row.neighborhood =
                                IF q.sc["neighborhood"] # Absent
                                THEN q.sc["neighborhood"]
                                ELSE old[q.id].neighborhood

\* a PUT stored the empty string in notes, left the status and liked columns
\* of its row alone, and another restaurant exists
C11_Witness ==
    \E r \in Slots :
        /\ Done(r) /\ reqs[r].kind = "PUT" /\ reqs[r].resp = <<200>>
        /\ reqs[r].id \in RestIds(db)
        /\ reqs[r].sc["notes"] = sEmpty
        /\ reqs[r].pre.rest[reqs[r].id].notes = sA
        /\ db.rest[reqs[r].id].notes = sEmpty
        /\ reqs[r].sc["status"] = Absent /\ ~reqs[r].likedGiven
        /\ db.rest[reqs[r].id].status = sB
        /\ db.rest[reqs[r].id].liked = 1
        /\ \E i \in RestIds(db) : i # reqs[r].id

\* the values a comma-separated parameter requests
Requested(x) == {ParseList(x)[i] : i \in 1..Len(ParseList(x))}

\* every category parameter of the query string names at least one value
NamesValues(p) == \A c \in Cat : p[c] # Absent => Requested(p[c]) # {}

\* the borough, status and liked filters of the query string hold of a row
EqualityFilters(row, p) ==
    /\ p.boroughs # Absent => row.borough = p.boroughs
    /\ p.status # Absent => row.status = p.status
    /\ p.liked # Absent => (row.liked = 1 <=> p.liked = sTrue)

\* the restaurant is linked, in every category the query string filters on,
\* to a lookup whose name is one of the requested values
MemberOfEach(d, id, p) ==
    \A c \in Cat : p[c] # Absent => Linked(d, c, id) \cap Requested(p[c]) # {}

\* the ids of the objects a response carries, in order
OutIds(q) == [i \in 1..Len(q.out) |-> q.out[i].id]

Unpaged(p) == p.limit = Absent /\ p.offset = Absent

\* C12: without a search term the list holds exactly the restaurants that
\* pass the borough, status and liked filters and, for each category
\* parameter, are linked to a lookup whose name is one of its values
C12_FiltersSelectByMembership ==
    \A r \in Slots :
        LET q == reqs[r]
        IN  (Done(r) /\ q.kind = "LIST" /\ q.qp.search = Absent
             /\ Unpaged(q.qp) /\ NamesValues(q.qp)) =>
                /\ q.resp = <<200>>
                /\ {q.out[i].id : i \in 1..Len(q.out)} =
                      {id \in RestIds(db) :
                          /\ EqualityFilters(db.rest[id], q.qp)
                          /\ MemberOfEach(db, id, q.qp)}

\* the term occurs, whatever the case of the letters, in the name, the
\* notes, what_to_order or the borough of the restaurant or in the name of a
\* lookup it is linked to
TextMatches(d, id, term) ==
    LET row == d.rest[id]
        texts == ({row.name, row.notes, row.what_to_order, row.borough}
                  \cup UNION {Linked(d, c, id) : c \in Cat}) \ {Null}
    IN  \E x \in texts : Contains(LowerS(x), LowerS(term))

\* C13: with a search term and a category filter the list holds exactly the restaurants that pass
\* the borough, status and liked filters and either pass every category
\* filter or match the text search; the text alternative stands against
\* the conjunction of all category filters
C13_SearchOrAllCategories ==
    \A r \in Slots :
        LET q == reqs[r]
        IN  (Done(r) /\ q.kind = "LIST" /\ q.qp.search # Absent
             /\ (\E c \in Cat : q.qp[c] # Absent)
             /\ Unpaged(q.qp) /\ NamesValues(q.qp)) =>
                /\ q.resp = <<200>>
                /\ {q.out[i].id : i \in 1..Len(q.out)} =
                      {id \in RestIds(db) :
                          /\ EqualityFilters(db.rest[id], q.qp)
                          /\ \/ MemberOfEach(db, id, q.qp)
                             \/ TextMatches(db, id, q.qp.search)}

\* the query string filters on nothing but borough, status and liked
EqualityOnly(p) == p.search = Absent /\ \A c \in Cat : p[c] = Absent

\* C14: the list names no restaurant twice, however many lookups the
\* restaurant is linked to, is ordered by name ascending, and (when no
\* limit or offset cuts it) holds every restaurant the filters select
C14_OncePerRestaurantByName ==
    \A r \in Slots :
        LET q == reqs[r]
        IN  (Done(r) /\ q.kind = "LIST" /\ q.resp = <<200>>) =>
                /\ \A i, j \in 1..Len(q.out) :
                      i < j => /\ q.out[i].id # q.out[j].id
                               /\ ~Less(q.out[j].name, q.out[i].name)
                /\ (Unpaged(q.qp) /\ EqualityOnly(q.qp)) =>
                      {q.out[i].id : i \in 1..Len(q.out)} =
                          {id \in RestIds(db) :
                              EqualityFilters(db.rest[id], q.qp)}

\* a list of two restaurants with different names, one of them linked to two
\* cuisines, a neighborhood and a tag
C14_Witness ==
    \E r \in Slots :
        /\ Done(r) /\ reqs[r].kind = "LIST" /\ reqs[r].resp = <<200>>
        /\ Len(reqs[r].out) = 2
        /\ Less(reqs[r].out[1].name, reqs[r].out[2].name)
        /\ reqs[r].out[1].id = 2
        /\ \E id \in RestIds(db) :
              /\ Cardinality(Linked(db, "cuisines", id)) = 2
              /\ Linked(db, "tags", id) # {}

\* the entries of a list of names, as a bag
Entries(list) ==
    LET S == {list[i] : i \in 1..Len(list)}
    IN  [n \in S |-> Cardinality({i \in 1..Len(list) : list[i] = n})]

\* a list of distinct non-blank names
DistinctNonBlank(list) ==
    /\ \A i \in 1..Len(list) : Trim(list[i]) # <<>>
    /\ ~HasDuplicate(list)

\* C15: after a create with a non-blank name and lists of distinct
\* non-blank names, GET /api/restaurants/:id with the new id yields one
\* object whose cuisines, types and neighborhoods hold exactly the supplied
\* trimmed names, one entry per name, with liked false and status
\* "Unvisited" when the body left them out
C15_CreateThenGet ==
    \A r \in Slots :
        LET q == reqs[r]
            got == OneRow(db, q.id)
        IN  (Done(r) /\ q.kind = "POST" /\ q.resp = <<200>>
             /\ \A c \in Cat : DistinctNonBlank(q.lists[c])) =>
                /\ Len(got) = 1
                /\ \A c \in {"cuisines", "types", "neighborhoods"} :
                      Entries(got[1][c]) = SetToBag(Supplied(q.lists[c]))
                /\ ~q.likedGiven => got[1].liked = FALSE
                /\ q.sc["status"] = Absent => got[1].status = sUnvisited

\* the color a tag is to be shown with
ShownColor(d, t) ==
    IF d.color[t] = Null \/ d.color[t] = <<>> THEN DefaultColor ELSE d.color[t]

\* C16: every tag linked to a restaurant appears in the tags of the
\* restaurant's object as a pair of the tag's full name and its color, the
\* default color #6B7280 when the tag row has none
C16_EveryTagShownWithColor ==
    \A r \in Slots :
        LET q == reqs[r]
        IN  (Done(r) /\ q.kind \in {"GET", "LIST"} /\ q.resp = <<200>>) =>
                \A i \in 1..Len(q.out) :
                    \A t \in Linked(db, "tags", q.out[i].id) :
                        \E k \in 1..Len(q.out[i].tags) :
                            q.out[i].tags[k] =
                                [name |-> t, color |-> ShownColor(db, t)]

\* C17: GET /api/restaurants/:id answers 404 and no object when no
\* restaurant row has the id, and 200 with exactly one object, the one of
\* that id, when a row has it; the query finds at most one row in every
\* database state, and none exactly for the ids without a row
C17_GetOneOrNotFound ==
    /\ \A r \in Slots :
          LET q == reqs[r]
          IN  (Done(r) /\ q.kind = "GET") =>
                IF q.id \in RestIds(db)
                THEN q.resp = <<200>> /\ Len(q.out) = 1 /\ q.out[1].id = q.id
                ELSE q.resp = <<404>> /\ q.out = <<>>
    /\ \A id \in Ids :
          /\ Len(OneRow(db, id)) <= 1
          /\ OneRow(db, id) = <<>> <=> id \notin RestIds(db)

\* a GET of an id that has link rows but no restaurant row was answered
C17_Witness ==
    \E r \in Slots :
        /\ Done(r) /\ reqs[r].kind = "GET"
        /\ reqs[r].id \notin RestIds(db)
        /\ \E c \in Cat : Linked(db, c, reqs[r].id) # {}
        /\ reqs[r].resp = <<404>>

\* what the database file holds: the open transaction is not yet part of it
Committed == IF tx THEN snap ELSE db

\* both slots hold a finished request and the connection is idle
BothAnswered == Quiet /\ \A r \in Slots : Done(r)

C19_FailureRollsBackThenAnswers500 ==
    \A r \in Slots :
        LET q == reqs[r]
        IN  (Done(r) /\ q.kind \in {"POST", "PUT", "DELETE"} /\ q.fault) =>
                q.resp = <<500>> /\ q.rbFirst

\* C20: the scratchpad table never holds more than one row and only the row
\* of id 1, and GET /api/scratchpad answers with the content of the latest
\* POST that was answered with success, the empty string when there was none
C20_ScratchpadSingleLatest ==
    /\ Cardinality(db.pad) <= 1
    /\ \A x \in db.pad : x.id = 1
    /\ \A r \in Slots :
          (Done(r) /\ reqs[r].kind = "PADGET") =>
              /\ reqs[r].resp = <<200>>
              /\ reqs[r].out = <<IF lastPost = NoPost THEN <<>> ELSE lastPost>>

\* a GET answered with the empty string that a successful POST stored, the
\* row being there before the GET
C20_Witness ==
    \E r \in Slots :
        /\ Done(r) /\ reqs[r].kind = "PADGET"
        /\ lastPost = sEmpty
        /\ faults = 0
        /\ reqs[r].out = <<sEmpty>>
        /\ reqs[r].pre.pad = {[id |-> 1, content |-> sEmpty]}

\* the keys the statistics object is to hold
StatsWanted ==
    {"total_restaurants", "visited_restaurants", "liked_restaurants",
     "total_cuisines", "total_types", "total_neighborhoods", "total_tags"}

\* the count a key of the statistics object stands for
WantedCount(d, key) ==
    CASE key = "total_restaurants" -> Cardinality(RestIds(d))
      [] key = "visited_restaurants" ->
            Cardinality({i \in RestIds(d) : d.rest[i].status = sVisited})
      [] key = "liked_restaurants" ->
            Cardinality({i \in RestIds(d) : d.rest[i].liked = 1})
      [] key = "total_cuisines" -> Cardinality(d.look["cuisines"])
      [] key = "total_types" -> Cardinality(d.look["types"])
      [] key = "total_neighborhoods" -> Cardinality(d.look["neighborhoods"])
      [] key = "total_tags" -> Cardinality(d.look["tags"])

\* C21: GET /api/stats answers 200 with an object that holds the seven
\* counts (restaurants, visited, liked, and one per lookup table), each the
\* row count of its table at the request, and answers 500 when one of its
\* queries failed
C21_StatsCompleteOrError ==
    \A r \in Slots :
        LET q == reqs[r]
        IN  (Done(r) /\ q.kind = "STATS") =>
                IF q.fault THEN q.resp = <<500>>
                ELSE /\ q.resp = <<200>>
                     /\ Len(q.out) = 1
                     /\ DOMAIN q.out[1] = StatsWanted
                     /\ \A k \in StatsWanted : q.out[1][k] = WantedCount(q.pre, k)

\* a list one of whose names is empty after trimming
HasBlank(list) == \E j \in 1..Len(list) : Trim(list[j]) = <<>>

\* C22: a create or update whose lists carry a name that is empty after
\* trimming (and no name twice) succeeds, adds no lookup row with an empty
\* name and no link to one, and links the restaurant to the other names
C22_BlankNamesSkipped ==
    \A r \in Slots :
        LET q == reqs[r]
        IN  (Done(r) /\ IsWrite(q)
             /\ (q.kind = "POST" => ~BlankName(q.nameGiven, q.name))
             /\ (q.kind = "PUT" => q.id \in RestIds(q.pre))
             /\ (\E c \in Cat : HasBlank(q.lists[c]))
             /\ \A c \in Cat : ~HasDuplicate(q.lists[c])) =>
                /\ q.resp = <<200>>
                /\ \A c \in Cat :
                      /\ <<>> \in db.look[c] => <<>> \in q.pre.look[c]
                      /\ <<>> \notin Linked(db, c, q.id)
                      /\ Supplied(q.lists[c]) \ {<<>>} \subseteq Linked(db, c, q.id)

\* C23: whatever search term and category parameters the query string
\* carries, a category parameter without values included, the text built
\* behind GROUP BY r.id is empty or opens with the one HAVING that later
\* conditions join with AND or OR, and the request is not answered 500
C23_StatementAlwaysValid ==
    \A r \in Slots :
        LET q == reqs[r]
            pieces == HavingPieces(q.qp)
        IN  (Done(r) /\ q.kind = "LIST") =>
                /\ pieces # <<>> => pieces[1].op = "HAVING"
                /\ \A i \in 2..Len(pieces) : pieces[i].op \in {"AND", "OR"}
                /\ q.resp = <<200>>

\* C24: no restaurant that fails a supplied borough, status or liked filter
\* is in the list, whatever search term and category filters the query
\* string also carries
C24_EqualityFiltersAlwaysApply ==
    \A r \in Slots :
        LET q == reqs[r]
        IN  (Done(r) /\ q.kind = "LIST" /\ q.resp = <<200>>) =>
                \A i \in 1..Len(q.out) :
                    /\ q.out[i].id \in RestIds(db)
                    /\ EqualityFilters(db.rest[q.out[i].id], q.qp)

\* a list answered for a search term and a category filter: a restaurant
\* whose text matches the term fails the equality filter and is left out,
\* another one is returned
C24_Witness ==
    \E r \in Slots :
        LET q == reqs[r]
        IN  /\ Done(r) /\ q.kind = "LIST" /\ q.resp = <<200>>
            /\ q.qp.search # Absent
            /\ \E c \in Cat : q.qp[c] # Absent
            /\ Len(q.out) = 1
            /\ \E id \in RestIds(db) :
                  /\ TextMatches(db, id, q.qp.search)
                  /\ ~EqualityFilters(db.rest[id], q.qp)
                  /\ id # q.out[1].id

\* C25: after a successful PUT of a stored restaurant, one that carries
\* only association lists included, the updated_at of the restaurant is the
\* time of that request
C25_EveryUpdateStamps ==
    \A r \in Slots :
        LET q == reqs[r]
        IN  (Done(r) /\ q.kind = "PUT" /\ q.resp = <<200>>
             /\ q.id \in RestIds(db)) =>
                db.stamp[q.id] = nreq

\* the statements of request r that were issued and have not run yet
PendingStmts(r) ==
    {s \in inflight : s.req = r} \cup {queue[j] : j \in {i \in 1..Len(queue) : queue[i].req = r}}

LinkInsertKinds == {"INSERT_LOOKUP", "INSERT_LINK"}

\* C26: while a COMMIT of a create or update is issued and has not run, no
\* link statement of the request is outstanding and every supplied name is
\* linked; an update has statements of one category outstanding at a time,
\* its DELETE of a category is never outstanding together with a link
\* insert, and while it works on a category every category before it in the
\* order cuisines, types, neighborhoods, tags is already rewritten
C26_CategoriesInOrderThenCommit ==
    \A r \in Slots :
        LET q == reqs[r]
            P == PendingStmts(r)
            work == {s \in P : s.k \in LinkInsertKinds \cup {"DELETE_LINKS_THEN"}}
        IN  IsWrite(q) =>
              /\ (\E s \in P : s.k = "COMMIT") =>
                    /\ work = {}
                    /\ Cardinality({s \in P : s.k = "COMMIT"}) = 1
                    /\ q.resp = <<>>
                    /\ \A c \in Cat : Supplied(q.lists[c]) \subseteq Linked(db, c, q.id)
              /\ q.kind = "PUT" =>
                    \A s \in work :
                        /\ \A t \in work : t.cat = s.cat
                        /\ s.k = "DELETE_LINKS_THEN" => work = {s}
                        /\ ~q.rejected =>
                              \A i \in 1..(CatIndex(s.cat) - 1) :
                                  Linked(db, CatOrder[i], q.id)
                                      = Supplied(q.lists[CatOrder[i]])

\* the COMMIT of an update that rewrote two categories with names is issued
C26_Witness ==
    \E r \in Slots :
        /\ reqs[r].kind = "PUT"
        /\ \E s \in PendingStmts(r) : s.k = "COMMIT"
        /\ Len(reqs[r].lists["cuisines"]) = 2
        /\ Len(reqs[r].lists["tags"]) = 1
        /\ Linked(db, "cuisines", reqs[r].id) = Supplied(reqs[r].lists["cuisines"])
        /\ Linked(db, "tags", reqs[r].id) = Supplied(reqs[r].lists["tags"])

\* C27: once every statement that POST /api/migrate-neighborhoods issued
\* has run, the request has sent exactly one response and the transaction
\* it began is ended, whatever legacy rows it selected, rows whose text
\* yields no name included
C27_MigrationAnswersAndEndsTx ==
    \A r \in Slots :
        reqs[r].kind = "MIGRATE" =>
            /\ Len(reqs[r].resp) <= 1
            /\ Done(r) => /\ Len(reqs[r].resp) = 1
                          /\ ~reqs[r].preTx => ~tx

\* C28: whenever no request is at work and no transaction is open, every
\* row of each join table references a restaurant that exists and a lookup
\* row that exists
C28_ReferentialIntegrity ==
    (Quiet /\ ~tx) =>
        \A c \in Cat : \A p \in DOMAIN db.link[c] :
            /\ p[1] \in RestIds(db)
            /\ p[2] \in db.look[c]

\* C29: once a create, update or delete that found no transaction open has
\* answered and every statement it issued has run, the connection has no
\* open transaction, also when one of its statements or its COMMIT failed
C29_NoTransactionLeftOpen ==
    \A r \in Slots :
        LET q == reqs[r]
        IN  (Done(r) /\ q.kind \in {"POST", "PUT", "DELETE"}
             /\ q.resp # <<>> /\ ~q.preTx) => ~tx

\* C30: a create, update, delete or statistics request never has two
\* responses, and has exactly one once every statement it issued has run,
\* whichever statement failed and in whatever order the statements ran
C30_ExactlyOneResponse ==
    \A r \in Slots :
        reqs[r].kind \in {"POST", "PUT", "DELETE", "STATS"} =>
            /\ Len(reqs[r].resp) <= 1
            /\ Done(r) => Len(reqs[r].resp) = 1

====
